---------------------------- MODULE Spec2Model ----------------------------
(***************************************************************************)
(* GreenLeaf: the sales / inventory pipeline of CollectInventoryData.py    *)
(* (and its copy in CollectSalesData.py), and Slow0Movers.py.              *)
(*                                                                         *)
(* Specifications, over one list of variables (each keeps the variables    *)
(* it does not use at rest):                                               *)
(*   SpecClean    clean_and_validate_data on one batch                     *)
(*   Spec         the module-level run, then webhook requests one by one   *)
(*   SpecSlow     one run of Slow0Movers.py                                *)
(*   SpecSales    the module-level run of CollectSalesData.py              *)
(*   SpecStock    calculate_safety_stock and calculate_reorder_point       *)
(*   SpecPersist  the pipeline run twice on one input                      *)
(*   SpecSmooth   a batch cleaned and handed to calculate_ema              *)
(*   SpecConc     two webhook requests on two threads of the server        *)
(*                                                                         *)
(* Numbers.  A raw numeric value is held in units of 1/Scale, so that with *)
(* Scale = 2 the value 3 stands for 1.5.  A float64 cell is a record       *)
(* [nan, v]; an int64 cell is a plain integer (whole units).  Quartiles    *)
(* are held times 4 (pandas interpolates linearly at (n-1)/4 and           *)
(* 3(n-1)/4, so 4*Q is an integer whenever the values are).                *)
(***************************************************************************)
EXTENDS Integers, Sequences, FiniteSets, TLC

VARIABLES
    \* ---- one call of clean_and_validate_data and a second filter pass
    data,           \* the argument of clean_and_validate_data
    normalized,     \* df after line 92 (before the outlier loop)
    cleaned,        \* the returned df
    refiltered,     \* the outlier loop applied once more to the returned df
    cpc,            \* "start" | "cleaned" | "raised" | "refiltered"
    \* ---- the process: module-level run, then the Flask server
    pc,             \* "fetch" | "sales" | "inventory" | "main" | "serving" | "crashed"
    config,         \* config['data_processing']
    sales_data,     \* result of fetch_sales_data()
    inventory_data, \* result of fetch_inventory_data()
    stages,         \* the stages the module-level run has executed, in order
    log,            \* the messages logged at warning / error level
    alerts,         \* number of send_alert calls
    table,          \* committed rows of inventory_data, by unique key
    hook,           \* the last webhook request: payload, stages, response
    \* ---- the other scripts, single stages, overlapping requests
    slow_selling_items, \* committed rows of table slow_selling_items
    ema_data,       \* the frame returned by calculate_ema
    daily_demand,   \* the residual series handed to calculate_safety_stock
    safety_stock,   \* the value calculate_safety_stock returned
    final_data,     \* the frame returned by calculate_reorder_point
    db,             \* the shared connection: its open transaction
    requests,       \* the webhook requests in progress, by thread
    commits         \* the db.commit() calls so far, in order

vars == <<data, normalized, cleaned, refiltered, cpc,
          pc, config, sales_data, inventory_data, stages, log, alerts, table, hook,
          slow_selling_items, ema_data, daily_demand, safety_stock, final_data,
          db, requests, commits>>

cleanVars == <<data, normalized, cleaned, refiltered, cpc>>
procVars  == <<pc, config, sales_data, inventory_data, stages, log, alerts, table, hook>>
auxVars   == <<slow_selling_items, ema_data, daily_demand, safety_stock, final_data,
               db, requests, commits>>

-----------------------------------------------------------------------------
(* Bounds of the model *)

Scale == 2          \* raw values are multiples of 1/Scale
MaxRawLen == 3      \* longest batch of arbitrary raw records
MaxFilterLen == 6   \* longest batch of well-formed records (outlier filter)

(* Program constants *)

IQR_K == 10         \* the factor of the IQR in the outlier bounds

-----------------------------------------------------------------------------
(* Raw cells: what a tuple of the fetched / posted batch may hold *)

None      == [tag |-> "none",   v |-> 0]
BadStr    == [tag |-> "str",    v |-> 0]      \* a string that is no number
Num(n)    == [tag |-> "num",    v |-> n]      \* the number n/Scale
NumStr(n) == [tag |-> "numstr", v |-> n]      \* the string spelling n/Scale

NoneStr == "<None>"                            \* None in a categorical column

DateObj(d) == [fmt |-> "date", day |-> d]      \* datetime.date
DateStr(d) == [fmt |-> "str",  day |-> d]      \* an ISO string of the same day
NoDate     == [fmt |-> "none", day |-> 0]      \* None

IsAbsent(c) == c.tag \in {"none", "str"}

-----------------------------------------------------------------------------
(* pandas primitives used by clean_and_validate_data *)

NaN == [nan |-> TRUE, v |-> 0]
F(n) == [nan |-> FALSE, v |-> n]

\* pd.to_numeric(..., errors='coerce')
to_numeric(c) == IF c.tag \in {"num", "numstr"} THEN F(c.v) ELSE NaN

\* faulty variant of fillna: a fill value of 1
fillna_mutant(c) == IF c.nan THEN F(Scale) ELSE c

\* Series.fillna(0)
fillna(c) == IF c.nan THEN F(0) ELSE c

\* Series.fillna('N/A')
fillna_cat(s) == IF s = NoneStr THEN "N/A" ELSE s

\* Series.astype(int) on one float64 cell: truncation toward zero
astype_int(c) == IF c.v >= 0 THEN c.v \div Scale ELSE -((-c.v) \div Scale)

\* pd.to_datetime on one cell
to_datetime(d) == [nat |-> d.fmt = "none", day |-> d.day]

\* pd.DataFrame(data, columns=[...]): the rows with their index label
DataFrame(batch) ==
    [i \in 1..Len(batch) |->
        [idx |-> i,
         product_id |-> batch[i].product_id,
         order_id |-> batch[i].order_id,
         sale_date |-> batch[i].sale_date,
         sales_quantity |-> batch[i].sales_quantity,
         sales_price |-> batch[i].sales_price,
         warehouse_location |-> batch[i].warehouse_location,
         batch_number |-> batch[i].batch_number,
         expiration_date |-> batch[i].expiration_date]]

\* lines 70-80: to_numeric and the fills
Coerce(df) ==
    [i \in 1..Len(df) |->
        [df[i] EXCEPT
            !.sales_quantity = fillna(to_numeric(@)),
            !.sales_price = fillna(to_numeric(@)),
            !.warehouse_location = fillna_cat(@),
            !.batch_number = fillna_cat(@)]]

\* two rows equal in every column (the index label is no column)
SameColumns(r, s) == [r EXCEPT !.idx = 0] = [s EXCEPT !.idx = 0]

\* df[mask]: the rows at the positions in K, in their order
RECURSIVE SelectRows(_, _, _)
SelectRows(df, K, i) ==
    IF i > Len(df) THEN <<>>
    ELSE (IF i \in K THEN <<df[i]>> ELSE <<>>) \o SelectRows(df, K, i + 1)

\* df.drop_duplicates(): the first row of each group of equal rows is kept
drop_duplicates(df) ==
    SelectRows(df, {i \in 1..Len(df) :
                      \A j \in 1..(i - 1) : ~SameColumns(df[j], df[i])}, 1)

\* lines 89-92: the final types
Retype(df) ==
    [i \in 1..Len(df) |->
        [df[i] EXCEPT
            !.sales_quantity = astype_int(@),
            !.sale_date = to_datetime(@),
            !.expiration_date = to_datetime(@)]]

\* astype(int) raises on a NaN cell
RetypeRaises(df) == \E i \in 1..Len(df) : df[i].sales_quantity.nan

-----------------------------------------------------------------------------
(* The outlier loop, lines 97-103 *)

ColIsNaN(r, column) ==
    IF column = "sales_quantity" THEN FALSE ELSE r.sales_price.nan
ColVal(r, column) ==
    IF column = "sales_quantity" THEN r.sales_quantity ELSE r.sales_price.v

RECURSIVE Insert(_, _)
Insert(x, s) ==
    IF s = <<>> THEN <<x>>
    ELSE IF x <= Head(s) THEN <<x>> \o s
    ELSE <<Head(s)>> \o Insert(x, Tail(s))

RECURSIVE SortedValues(_, _, _)
SortedValues(df, column, i) ==
    IF i > Len(df) THEN <<>>
    ELSE IF ColIsNaN(df[i], column) THEN SortedValues(df, column, i + 1)
    ELSE Insert(ColVal(df[i], column), SortedValues(df, column, i + 1))

\* 4 * Series.quantile(num/4) of the sorted non-NaN values s (s not empty)
Quantile4(s, num) ==
    LET h == (Len(s) - 1) * num
        lo == (h \div 4) + 1
        rem == h % 4
    IN IF rem = 0 THEN 4 * s[lo]
       ELSE 4 * s[lo] + rem * (s[lo + 1] - s[lo])

\* faulty variant of FilterColumn: strict comparisons (> and < for >= and <=)
FilterColumnStrict(df, column) ==
    LET s == SortedValues(df, column, 1)
        Q1 == Quantile4(s, 1)
        Q3 == Quantile4(s, 3)
        IQR == Q3 - Q1
        keep == {i \in 1..Len(df) :
                   /\ s # <<>>
                   /\ ~ColIsNaN(df[i], column)
                   /\ 4 * ColVal(df[i], column) > Q1 - IQR_K * IQR
                   /\ 4 * ColVal(df[i], column) < Q3 + IQR_K * IQR}
    IN SelectRows(df, keep, 1)

\* faulty variant of FilterColumn: the upper bound is forgotten
FilterColumnLowerOnly(df, column) ==
    LET s == SortedValues(df, column, 1)
        Q1 == Quantile4(s, 1)
        Q3 == Quantile4(s, 3)
        IQR == Q3 - Q1
        keep == {i \in 1..Len(df) :
                   /\ s # <<>>
                   /\ ~ColIsNaN(df[i], column)
                   /\ 4 * ColVal(df[i], column) >= Q1 - IQR_K * IQR}
    IN SelectRows(df, keep, 1)

\* faulty variant of FilterColumn: the factor of the IQR is forgotten
FilterColumnNoFactor(df, column) ==
    LET s == SortedValues(df, column, 1)
        Q1 == Quantile4(s, 1)
        Q3 == Quantile4(s, 3)
        keep == {i \in 1..Len(df) :
                   /\ s # <<>>
                   /\ ~ColIsNaN(df[i], column)
                   /\ 4 * ColVal(df[i], column) >= Q1
                   /\ 4 * ColVal(df[i], column) <= Q3}
    IN SelectRows(df, keep, 1)

\* line 102: the rows of df within [Q1 - 10*IQR, Q3 + 10*IQR] on one column
FilterColumn(df, column) ==
    LET s == SortedValues(df, column, 1)
        Q1 == Quantile4(s, 1)
        Q3 == Quantile4(s, 3)
        IQR == Q3 - Q1
        keep == {i \in 1..Len(df) :
                   /\ s # <<>>
                   /\ ~ColIsNaN(df[i], column)
                   /\ 4 * ColVal(df[i], column) >= Q1 - IQR_K * IQR
                   /\ 4 * ColVal(df[i], column) <= Q3 + IQR_K * IQR}
    IN SelectRows(df, keep, 1)

\* the loop over ['sales_quantity', 'sales_price']
RemoveOutliers(df) ==
    FilterColumn(FilterColumn(df, "sales_quantity"), "sales_price")

\* lines 66-109
clean_and_validate_data(batch) ==
    LET deduped == drop_duplicates(Coerce(DataFrame(batch)))
    IN IF RetypeRaises(deduped)
       THEN [raised |-> TRUE, normalized |-> <<>>, df |-> <<>>]
       ELSE [raised |-> FALSE,
             normalized |-> Retype(deduped),
             df |-> RemoveOutliers(Retype(deduped))]

-----------------------------------------------------------------------------
(* The stages after cleaning, and the store *)

\* STL(series, period).fit() is library code: on a series of fewer than two
\* periods it either raises or returns some decomposition
STLOutcomes(n, period) ==
    IF n < 2 * period THEN {"raises", "returns"} ELSE {"returns"}

\* faulty variant of HasData: the emptiness test is forgotten
HasDataAlways(batch) == TRUE

\* the truth value of a list: `if sales_data:` (line 280), `if data:` (line 330)
HasData(batch) == batch # <<>>

MissingValue(item) == item.sales_quantity = None \/ item.sales_price = None

\* lines 252-269; the alert is sent exactly when a non-empty batch fails
check_data_integrity(batch) ==
    batch # <<>> /\ \A i \in 1..Len(batch) : ~MissingValue(batch[i])

\* lines 283-293 (and 333-342): the stages run on one batch, up to the first
\* that raises, and the tuples handed to executemany
RunStages(batch, period, stl) ==
    LET c == clean_and_validate_data(batch)
    IN IF c.raised
       THEN [stages |-> <<"clean_and_validate_data">>, raised |-> TRUE,
             records |-> <<>>]
       ELSE IF stl = "raises"
       THEN [stages |-> <<"clean_and_validate_data", "calculate_ema",
                          "apply_stl_decomposition">>,
             raised |-> TRUE, records |-> <<>>]
       ELSE [stages |-> <<"clean_and_validate_data", "calculate_ema",
                          "apply_stl_decomposition", "calculate_safety_stock",
                          "calculate_reorder_point", "cursor.executemany",
                          "db.commit">>,
             raised |-> FALSE, records |-> c.df]

\* the unique key of table inventory_data
UniqueKey(row) == row.product_id

\* the columns the sales INSERT sets, from one tuple of final_data
SaleColumns(r) ==
    [sale_date |-> r.sale_date, sales_quantity |-> r.sales_quantity,
     sales_price |-> r.sales_price, batch_number |-> r.batch_number,
     expiration_date |-> r.expiration_date]

\* faulty variant of UpsertSale: a plain INSERT, without ON DUPLICATE KEY
\* UPDATE, into a table that lets it through
UpsertSaleInsertOnly(t, r) ==
    t \cup {[product_id |-> r.product_id, order_id |-> <<r.order_id>>,
             sale |-> <<SaleColumns(r)>>,
             warehouse_location |-> <<r.warehouse_location>>,
             current_stock |-> <<>>]}

\* lines 294-309: INSERT ... ON DUPLICATE KEY UPDATE of one tuple; a NULL
\* column is <<>>.  On a duplicate key order_id is not among the columns
\* updated.
UpsertSale(t, r) ==
    IF \E row \in t : UniqueKey(row) = r.product_id
    THEN {IF UniqueKey(row) = r.product_id
          THEN [row EXCEPT !.sale = <<SaleColumns(r)>>,
                           !.warehouse_location = <<r.warehouse_location>>]
          ELSE row : row \in t}
    ELSE t \cup {[product_id |-> r.product_id, order_id |-> <<r.order_id>>,
                  sale |-> <<SaleColumns(r)>>,
                  warehouse_location |-> <<r.warehouse_location>>,
                  current_stock |-> <<>>]}

\* cursor.executemany of the sales INSERT: one upsert per tuple, in order
RECURSIVE ExecuteManySales(_, _)
ExecuteManySales(t, records) ==
    IF records = <<>> THEN t
    ELSE ExecuteManySales(UpsertSale(t, Head(records)), Tail(records))

\* lines 242-248: one (product_id, warehouse_location, available_quantity)
UpsertInventory(t, x) ==
    IF \E row \in t : UniqueKey(row) = x[1]
    THEN {IF UniqueKey(row) = x[1]
          THEN [row EXCEPT !.warehouse_location = <<x[2]>>,
                           !.current_stock = <<x[3]>>]
          ELSE row : row \in t}
    ELSE t \cup {[product_id |-> x[1], order_id |-> <<>>, sale |-> <<>>,
                  warehouse_location |-> <<x[2]>>, current_stock |-> <<x[3]>>]}

\* lines 237-250
RECURSIVE store_inventory_data(_, _)
store_inventory_data(t, inv) ==
    IF inv = <<>> THEN t
    ELSE store_inventory_data(UpsertInventory(t, Head(inv)), Tail(inv))

\* lines 186-200: the tuples kept from the order items (an item without an
\* ItemPrice amount is skipped)
RECURSIVE fetch_sales_data(_)
fetch_sales_data(items) ==
    IF items = <<>> THEN <<>>
    ELSE (IF Head(items).sales_price # None THEN <<Head(items)>> ELSE <<>>)
         \o fetch_sales_data(Tail(items))

-----------------------------------------------------------------------------
(* The batches clean_and_validate_data is exercised on *)

BaseRecord ==
    [product_id |-> "P1", order_id |-> 1, sale_date |-> DateObj(1),
     sales_quantity |-> Num(Scale), sales_price |-> Num(Scale + 1),
     warehouse_location |-> "W1", batch_number |-> "B1",
     expiration_date |-> NoDate]

\* arbitrary raw records: absent, un-parseable, fractional, negative, textual
RawPool ==
    { [BaseRecord EXCEPT !.sales_quantity = q] :
        q \in {Num(Scale), Num(Scale + 1), Num(0), Num(-Scale), NumStr(Scale),
               None, BadStr} }
    \cup
    { [BaseRecord EXCEPT !.sales_price = p] : p \in {None, BadStr, Num(-1)} }
    \cup
    { [BaseRecord EXCEPT !.sale_date = DateStr(1)],
      [BaseRecord EXCEPT !.warehouse_location = NoneStr] }

RECURSIVE SeqsUpTo(_, _)
SeqsUpTo(S, n) ==
    IF n = 0 THEN {<<>>}
    ELSE LET shorter == SeqsUpTo(S, n - 1)
         IN shorter \cup {Append(s, x) : s \in {t \in shorter : Len(t) = n - 1}, x \in S}

RawBatches == SeqsUpTo(RawPool, MaxRawLen)

\* well-formed records, one order each: quantity 0 or 1, price 1 or 2
FilterCells == {<<q, p>> : q \in {0, Scale}, p \in {Scale, 2 * Scale}}

FilterBatch(f) ==
    [i \in 1..Len(f) |->
        [BaseRecord EXCEPT !.order_id = i,
                           !.sales_quantity = Num(f[i][1]),
                           !.sales_price = Num(f[i][2])]]

FilterBatches == {FilterBatch(f) : f \in SeqsUpTo(FilterCells, MaxFilterLen)}

\* scenario A: the quantities 10, 12, 11, 13, 50, 9 at one price
ScenarioAQuantities == <<10, 12, 11, 13, 50, 9>>
ScenarioA ==
    FilterBatch([i \in 1..Len(ScenarioAQuantities) |->
                    <<ScenarioAQuantities[i] * Scale, Scale>>])

-----------------------------------------------------------------------------
(* The process: initial values (the module-level run has not started) *)

NoRequest == [data |-> <<>>, stages |-> <<>>, status |-> 0]

ProcIdle ==
    /\ pc = "fetch"
    /\ config = [stl_period |-> 2]
    /\ sales_data = <<>>
    /\ inventory_data = <<>>
    /\ stages = <<>>
    /\ log = {}
    /\ alerts = 0
    /\ table = {}
    /\ hook = NoRequest

\* the variables of the other specifications, at rest
CleanIdle ==
    /\ data = <<>>
    /\ normalized = <<>>
    /\ cleaned = <<>>
    /\ refiltered = <<>>
    /\ cpc = "start"

AuxIdle ==
    /\ slow_selling_items = {}
    /\ ema_data = <<>>
    /\ daily_demand = <<>>
    /\ safety_stock = <<>>
    /\ final_data = <<>>
    /\ db = [rows |-> {}, dirty |-> {}]
    /\ requests = <<>>
    /\ commits = <<>>

-----------------------------------------------------------------------------
(* Specification SpecClean: clean_and_validate_data on one batch, then the *)
(* outlier loop once more on what it returned                              *)

InitClean ==
    /\ data \in RawBatches \cup FilterBatches \cup {ScenarioA}
    /\ normalized = <<>>
    /\ cleaned = <<>>
    /\ refiltered = <<>>
    /\ cpc = "start"
    /\ ProcIdle
    /\ AuxIdle

Clean ==
    /\ cpc = "start"
    /\ LET r == clean_and_validate_data(data)
       IN /\ normalized' = r.normalized
          /\ cleaned' = r.df
          /\ cpc' = IF r.raised THEN "raised" ELSE "cleaned"
    /\ UNCHANGED <<data, refiltered>>
    /\ UNCHANGED procVars
    /\ UNCHANGED auxVars

SecondPass ==
    /\ cpc = "cleaned"
    /\ refiltered' = RemoveOutliers(cleaned)
    /\ cpc' = "refiltered"
    /\ UNCHANGED <<data, normalized, cleaned>>
    /\ UNCHANGED procVars
    /\ UNCHANGED auxVars

NextClean == Clean \/ SecondPass

SpecClean == InitClean /\ [][NextClean]_vars

-----------------------------------------------------------------------------
(* Specification Spec: the module-level run of CollectInventoryData.py,    *)
(* then the webhook server                                                 *)

MaxRunLen == 4      \* longest fetched batch / webhook payload
MaxPeriod == 2      \* largest config['data_processing']['stl_period']

\* one order item per order: complete, without quantity, without price
ItemKinds == {"ok", "no quantity", "no price"}

Item(kind, i) ==
    [BaseRecord EXCEPT
        !.order_id = i,
        !.product_id = IF i % 2 = 1 THEN "P1" ELSE "P2",
        !.sales_quantity = IF kind = "no quantity" THEN None ELSE Num(Scale),
        !.sales_price = IF kind = "no price" THEN None ELSE NumStr(Scale + 1)]

\* batches of n items, complete but possibly for the last one
ItemBatches ==
    {[i \in 1..n |-> Item(IF i = n THEN kind ELSE "ok", i)] :
        n \in 0..MaxRunLen, kind \in ItemKinds}

InventoryBatches == {<<>>, <<<<"P1", "FC1", 5>>>>}

MsgNoSalesToProcess == "No sales data to process."
MsgNoSalesFetched == "No sales data fetched. Aborting sales data processing."
MsgIntegrityFailed == "Data integrity check failed. Aborting sales data processing."
MsgIntegrityIssues == "Integrity issues found in data"
MsgNoInventory == "No inventory data fetched. Aborting inventory data processing."
MsgWebhookEmpty == "Empty data received from webhook."
MsgWebhookError == "Error processing webhook data"

Init ==
    /\ pc = "fetch"
    /\ config \in {[stl_period |-> p] : p \in 2..MaxPeriod}
    /\ sales_data = <<>>
    /\ inventory_data = <<>>
    /\ stages = <<>>
    /\ log = {}
    /\ alerts = 0
    /\ table = {}
    /\ hook = NoRequest
    /\ data = <<>>
    /\ normalized = <<>>
    /\ cleaned = <<>>
    /\ refiltered = <<>>
    /\ cpc = "start"
    /\ AuxIdle

\* lines 277-278: what the marketplace returned
FetchData ==
    /\ pc = "fetch"
    /\ \E items \in ItemBatches, inv \in InventoryBatches :
        /\ sales_data' = fetch_sales_data(items)
        /\ inventory_data' = inv
        /\ log' = IF fetch_sales_data(items) = <<>>
                  THEN log \cup {MsgNoSalesToProcess} ELSE log
    /\ pc' = "sales"
    /\ UNCHANGED <<config, stages, alerts, table, hook>>
    /\ UNCHANGED cleanVars
    /\ UNCHANGED auxVars

\* lines 280-315: the sales branch of the module-level run; an exception is
\* not caught and ends the process
ScheduledRun ==
    /\ pc = "sales"
    /\ IF HasData(sales_data)
       THEN IF check_data_integrity(sales_data)
            THEN \E stl \in STLOutcomes(Len(clean_and_validate_data(sales_data).df),
                                        config.stl_period) :
                    LET r == RunStages(sales_data, config.stl_period, stl)
                    IN /\ stages' = <<"check_data_integrity">> \o r.stages
                       /\ table' = IF r.raised THEN table
                                   ELSE ExecuteManySales(table, r.records)
                       /\ pc' = IF r.raised THEN "crashed" ELSE "inventory"
                       /\ UNCHANGED <<log, alerts>>
            ELSE /\ stages' = <<"check_data_integrity">>
                 /\ alerts' = IF sales_data # <<>> THEN alerts + 1 ELSE alerts
                 /\ log' = log \cup {MsgIntegrityFailed}
                             \cup (IF sales_data # <<>> THEN {MsgIntegrityIssues} ELSE {})
                 /\ pc' = "inventory"
                 /\ UNCHANGED table
       ELSE /\ log' = log \cup {MsgNoSalesFetched}
            /\ pc' = "inventory"
            /\ UNCHANGED <<stages, alerts, table>>
    /\ UNCHANGED <<config, sales_data, inventory_data, hook>>
    /\ UNCHANGED cleanVars
    /\ UNCHANGED auxVars

\* lines 317-320
InventoryStep ==
    /\ pc = "inventory"
    /\ IF inventory_data # <<>>
       THEN /\ table' = store_inventory_data(table, inventory_data)
            /\ UNCHANGED log
       ELSE /\ log' = log \cup {MsgNoInventory}
            /\ UNCHANGED table
    /\ pc' = "main"
    /\ UNCHANGED <<config, sales_data, inventory_data, stages, alerts, hook>>
    /\ UNCHANGED cleanVars
    /\ UNCHANGED auxVars

\* lines 369-370
StartServer ==
    /\ pc = "main"
    /\ pc' = "serving"
    /\ UNCHANGED <<config, sales_data, inventory_data, stages, log, alerts, table, hook>>
    /\ UNCHANGED cleanVars
    /\ UNCHANGED auxVars

\* lines 325-367: one POST /webhook, handled to its response
Webhook ==
    /\ pc = "serving"
    /\ \E payload \in ItemBatches :
        IF HasData(payload)
        THEN \E stl \in STLOutcomes(Len(clean_and_validate_data(payload).df),
                                    config.stl_period) :
                LET r == RunStages(payload, config.stl_period, stl)
                IN /\ hook' = [data |-> payload, stages |-> r.stages,
                               status |-> IF r.raised THEN 500 ELSE 200]
                   /\ table' = IF r.raised THEN table
                               ELSE ExecuteManySales(table, r.records)
                   /\ log' = IF r.raised THEN log \cup {MsgWebhookError} ELSE log
        ELSE /\ hook' = [data |-> payload, stages |-> <<>>, status |-> 400]
             /\ log' = log \cup {MsgWebhookEmpty}
             /\ UNCHANGED table
    /\ UNCHANGED <<pc, config, sales_data, inventory_data, stages, alerts>>
    /\ UNCHANGED cleanVars
    /\ UNCHANGED auxVars

Next == FetchData \/ ScheduledRun \/ InventoryStep \/ StartServer \/ Webhook

Spec == Init /\ [][Next]_vars

-----------------------------------------------------------------------------
(* Properties of clean_and_validate_data (checked under SpecClean) *)

Rows(df) == {df[i] : i \in 1..Len(df)}
Quantities(df) == [i \in 1..Len(df) |-> df[i].sales_quantity]

\* out holds rows of inp, in their order
IsSubFrame(out, inp) ==
    /\ Rows(out) \subseteq Rows(inp)
    /\ \A i \in 1..Len(out) : \A j \in 1..Len(out) : i < j => out[i].idx < out[j].idx

CleanReturned == cpc \in {"cleaned", "refiltered"}

\* C1 as stated: on scenario A (quantities 10, 12, 11, 13, 50, 9 at one
\* price) the filter keeps all six records, the one with quantity 50 included.
C1_ScenarioAKeepsAll ==
    (CleanReturned /\ data = ScenarioA) =>
        /\ Len(cleaned) = 6
        /\ \E i \in 1..Len(cleaned) : cleaned[i].sales_quantity = 50

\* C1, amended: on scenario A the filter keeps exactly the five records with
\* quantities 10, 12, 11, 13 and 9 and removes the one with quantity 50
\* (Q1 = 10.25, Q3 = 12.75, so the upper bound is 37.75).
C1_ScenarioARemoves50 ==
    (CleanReturned /\ data = ScenarioA) =>
        /\ Quantities(normalized) = ScenarioAQuantities
        /\ Quantities(cleaned) = <<10, 12, 11, 13, 9>>

C1_Witness ==
    /\ cpc = "cleaned"
    /\ data = ScenarioA
    /\ Len(normalized) = 6
    /\ Len(cleaned) < Len(normalized)

\* C2: a frame of fewer than 4 records comes out of the outlier loop exactly
\* as it went in, and the call does not raise.
C2_SmallBatchUnchanged ==
    (cpc # "start" /\ Len(data) < 4) =>
        /\ cpc # "raised"
        /\ Len(normalized) < 4
        /\ cleaned = normalized

C2_Witness ==
    /\ cpc = "cleaned"
    /\ Len(data) = 3
    /\ Len(normalized) = 3
    /\ normalized[1].sales_quantity < 0
    /\ normalized[2].sales_quantity > 0
    /\ normalized[3].sales_price.v < 0
    /\ cleaned = normalized

\* C3 as stated: every pass returns rows of its input, and a second pass over
\* the returned frame removes nothing.
C3_Idempotent ==
    (cpc = "refiltered") =>
        /\ IsSubFrame(cleaned, normalized)
        /\ IsSubFrame(refiltered, cleaned)
        /\ refiltered = cleaned

\* C3, amended: every pass returns rows of its input (in their order), and a
\* second pass removes nothing whenever the first pass returned fewer than 5
\* records; on a larger frame a second pass may remove further records.
C3_SubsetAndSmallIdempotent ==
    (cpc = "refiltered") =>
        /\ IsSubFrame(cleaned, normalized)
        /\ IsSubFrame(refiltered, cleaned)
        /\ (Len(cleaned) < 5 => refiltered = cleaned)

C3_Witness ==
    /\ cpc = "refiltered"
    /\ Len(normalized) > Len(cleaned)
    /\ Len(cleaned) = 4
    /\ refiltered = cleaned

\* C8: after normalization no quantity or price is NaN, and a raw value that
\* was absent or un-parseable is exactly zero in its normalized row.
C8_AbsentBecomesZero ==
    /\ cpc # "raised"
    /\ CleanReturned =>
        \A i \in 1..Len(normalized) :
            LET r == normalized[i]
                raw == data[r.idx]
            IN /\ ~r.sales_price.nan
               /\ IsAbsent(raw.sales_quantity) => r.sales_quantity = 0
               /\ IsAbsent(raw.sales_price) => r.sales_price = F(0)

C8_Witness ==
    /\ cpc = "cleaned"
    /\ \E i \in 1..Len(normalized) : data[normalized[i].idx].sales_quantity = BadStr
    /\ \E i \in 1..Len(normalized) : data[normalized[i].idx].sales_price = None

\* C9 as stated: no two rows the normalizer returns agree in every column
\* after the final type coercion.
C9_NoDuplicateRows ==
    CleanReturned =>
        \A i \in 1..Len(cleaned) : \A j \in 1..Len(cleaned) :
            i # j => ~SameColumns(cleaned[i], cleaned[j])

\* C10 as stated: every row the normalizer returns has a quantity >= 0 and a
\* price >= 0.
C10_NonNegative ==
    CleanReturned =>
        \A i \in 1..Len(cleaned) :
            /\ cleaned[i].sales_quantity >= 0
            /\ cleaned[i].sales_price.v >= 0

-----------------------------------------------------------------------------
(* Properties of the runs (checked under Spec) *)

SeqToSet(q) == {q[i] : i \in 1..Len(q)}

ScheduledRunOver == pc \in {"inventory", "main", "serving", "crashed"}
HookAnswered == hook.status # 0

HasMissingValue(batch) == \E i \in 1..Len(batch) : MissingValue(batch[i])

\* the length of the series handed to the decomposition for a batch
SeriesLen(batch) == Len(clean_and_validate_data(batch).df)

MsgInsufficientData == "insufficient data for decomposition"

\* C4: on an empty batch no stage runs (nothing is cleaned, smoothed,
\* decomposed or written), the condition is reported (the log for the
\* module-level run, the 400 response for the webhook) and the process goes on.
C4_EmptyInputSkipsStages ==
    /\ (ScheduledRunOver /\ sales_data = <<>>) =>
            /\ stages = <<>>
            /\ MsgNoSalesFetched \in log
            /\ pc # "crashed"
            /\ (~HookAnswered => \A row \in table : row.sale = <<>>)
    /\ (HookAnswered /\ hook.data = <<>>) =>
            /\ hook.stages = <<>>
            /\ hook.status = 400
            /\ MsgWebhookEmpty \in log
            /\ pc = "serving"

C4_Witness ==
    /\ pc = "serving"
    /\ sales_data = <<>>
    /\ inventory_data # <<>>
    /\ table # {}
    /\ hook.status = 400
    /\ hook.data = <<>>

\* C5 as stated: a batch with a missing quantity or price is aborted in
\* either run: an alert is sent, nothing is cleaned, smoothed, decomposed or
\* written, and the process does not crash.
C5_MissingValueAborts ==
    /\ (ScheduledRunOver /\ HasMissingValue(sales_data)) =>
            /\ alerts > 0
            /\ stages = <<"check_data_integrity">>
            /\ pc # "crashed"
    /\ (HookAnswered /\ HasMissingValue(hook.data)) =>
            /\ alerts > 0
            /\ SeqToSet(hook.stages) \cap
                 {"clean_and_validate_data", "calculate_ema",
                  "apply_stl_decomposition", "cursor.executemany",
                  "db.commit"} = {}

\* C6 as stated: on the same batch the module-level run and the webhook run
\* execute the same stages (the integrity check included) and end alike:
\* both commit, or both abort.
C6_SameBehaviour ==
    (pc = "serving" /\ HookAnswered /\ hook.data = sales_data) =>
        /\ hook.stages = stages
        /\ (hook.status = 200) <=> ("db.commit" \in SeqToSet(stages))

\* C7 as stated: when the decomposition is given fewer than 2 * period
\* points, the insufficient data is reported and the run still completes
\* (the module-level run does not end the process, the webhook run answers
\* 200).
C7_ShortSeriesDegrades ==
    /\ (/\ ScheduledRunOver
        /\ "apply_stl_decomposition" \in SeqToSet(stages)
        /\ SeriesLen(sales_data) < 2 * config.stl_period) =>
            /\ MsgInsufficientData \in log
            /\ pc # "crashed"
    /\ (/\ HookAnswered
        /\ "apply_stl_decomposition" \in SeqToSet(hook.stages)
        /\ SeriesLen(hook.data) < 2 * config.stl_period) =>
            /\ MsgInsufficientData \in log
            /\ hook.status = 200

-----------------------------------------------------------------------------
(* Slow0Movers.py: the threshold-on-average classifier and its store.  A   *)
(* frame read from the database has no row order the script relies on and  *)
(* is held as the set of its rows.                                         *)

Days == 30          \* the default of parameter days
Threshold == 1      \* the default of parameter threshold

NULL == <<>>        \* a NULL column; a value x is held as <<x>>

\* SUM(sales_quantity) over a group of rows: NULLs are skipped
RECURSIVE SumQuantity(_)
SumQuantity(S) ==
    IF S = {} THEN 0
    ELSE LET row == CHOOSE r \in S : TRUE
         IN (IF row.sale = NULL THEN 0 ELSE row.sale[1].sales_quantity)
            + SumQuantity(S \ {row})

\* lines 45-54: one row per group (product_id, current_stock); a NULL
\* available_quantity arrives as NaN
fetch_combined_data(t) ==
    {[product_id |-> g[1],
      available_quantity |-> g[2],
      total_sales_quantity |->
          SumQuantity({row \in t : <<row.product_id, row.current_stock>> = g})] :
        g \in {<<row.product_id, row.current_stock>> : row \in t}}

\* total_sales_quantity / days, held as a fraction
average_daily_sales(r, days) == [num |-> r.total_sales_quantity, den |-> days]

\* average_daily_sales < threshold
is_slow_selling(r, days, threshold) ==
    average_daily_sales(r, days).num < threshold * average_daily_sales(r, days).den

\* available_quantity > 0 (False on NaN)
IsAvailable(r) == r.available_quantity # NULL /\ r.available_quantity[1] > 0

\* faulty variant of identify_slow_selling_items: the availability test is
\* forgotten
identify_slow_selling_items_any(df, days, threshold) ==
    {[product_id |-> r.product_id,
      average_daily_sales |-> average_daily_sales(r, days),
      available_quantity |-> r.available_quantity] :
        r \in {x \in df : is_slow_selling(x, days, threshold)}}

\* lines 56-60, with the columns store_slow_selling_items reads
identify_slow_selling_items(df, days, threshold) ==
    {[product_id |-> r.product_id,
      average_daily_sales |-> average_daily_sales(r, days),
      available_quantity |-> r.available_quantity] :
        r \in {x \in df : is_slow_selling(x, days, threshold) /\ IsAvailable(x)}}

\* one tuple of the INSERT ... ON DUPLICATE KEY UPDATE of lines 64-70
UpsertSlow(t, r) ==
    IF \E row \in t : UniqueKey(row) = r.product_id
    THEN {IF UniqueKey(row) = r.product_id
          THEN [row EXCEPT !.average_daily_sales = <<r.average_daily_sales>>,
                           !.available_quantity = r.available_quantity]
          ELSE row : row \in t}
    ELSE t \cup {[product_id |-> r.product_id,
                  average_daily_sales |-> <<r.average_daily_sales>>,
                  available_quantity |-> r.available_quantity,
                  predicted_sales |-> NULL]}

\* lines 62-72: executemany and commit
RECURSIVE store_slow_selling_items(_, _)
store_slow_selling_items(t, df) ==
    IF df = {} THEN t
    ELSE LET r == CHOOSE x \in df : TRUE
         IN store_slow_selling_items(UpsertSlow(t, r), df \ {r})

MsgNoSlowSelling == "No slow-selling items identified."

\* a row of inventory_data of product p: stock s and sold quantity q (each
\* possibly NULL)
StockRow(p, s, q) ==
    [product_id |-> p, order_id |-> IF q = NULL THEN NULL ELSE <<1>>,
     sale |-> IF q = NULL THEN NULL
              ELSE <<[SaleColumns(Retype(Coerce(DataFrame(<<BaseRecord>>)))[1])
                         EXCEPT !.sales_quantity = q[1]]>>,
     warehouse_location |-> <<"W1">>, current_stock |-> s]

StockLevels == {NULL, <<0>>, <<5>>}
SoldQuantities ==
    {NULL, <<0>>, <<Threshold * Days - 1>>, <<Threshold * Days>>,
     <<Threshold * Days + 1>>}

\* the rows a product may have in inventory_data: none, or one
ProductRows(p) ==
    {{}} \cup {{StockRow(p, s, q)} : s \in StockLevels, q \in SoldQuantities}

StockTables == {a \cup b : a \in ProductRows("P1"), b \in ProductRows("P2")}

(* Specification SpecSlow: one run of Slow0Movers.py on a stored table *)

InitSlow ==
    /\ pc = "slow movers"
    /\ table \in StockTables
    /\ config = [stl_period |-> 2]
    /\ sales_data = <<>>
    /\ inventory_data = <<>>
    /\ stages = <<>>
    /\ log = {}
    /\ alerts = 0
    /\ hook = NoRequest
    /\ CleanIdle
    /\ AuxIdle

\* lines 74-80: the main process
SlowMovers ==
    /\ pc = "slow movers"
    /\ LET slow == identify_slow_selling_items(fetch_combined_data(table),
                                               Days, Threshold)
       IN IF slow # {}
          THEN /\ slow_selling_items' = store_slow_selling_items(slow_selling_items, slow)
               /\ UNCHANGED log
          ELSE /\ log' = log \cup {MsgNoSlowSelling}
               /\ UNCHANGED slow_selling_items
    /\ pc' = "done"
    /\ UNCHANGED <<config, sales_data, inventory_data, stages, alerts, table, hook>>
    /\ UNCHANGED cleanVars
    /\ UNCHANGED <<ema_data, daily_demand, safety_stock, final_data, db,
                   requests, commits>>

NextSlow == SlowMovers

SpecSlow == InitSlow /\ [][NextSlow]_vars

Stored(p) == \E s \in slow_selling_items : s.product_id = p

\* C11: after a run of the threshold-on-average classifier a product is in
\* slow_selling_items if and only if its total sales over the window divided
\* by the days is below the threshold and its available quantity is above 0;
\* in particular no stored row has available quantity 0 (or none), and a
\* product with available 0 and no sales is not stored.
C11_OnlyAvailableSlowMovers ==
    pc = "done" =>
        /\ \A row \in table :
              Stored(row.product_id) <=>
                  /\ SumQuantity({row}) < Threshold * Days
                  /\ row.current_stock # NULL
                  /\ row.current_stock[1] > 0
        /\ \A s \in slow_selling_items :
              /\ s.available_quantity # NULL
              /\ s.available_quantity[1] > 0
              /\ \E row \in table : row.product_id = s.product_id
        /\ (slow_selling_items = {}) <=> (MsgNoSlowSelling \in log)

C11_Witness ==
    /\ pc = "done"
    /\ \E row \in table :
          /\ row.current_stock = <<0>>
          /\ SumQuantity({row}) = 0
          /\ ~Stored(row.product_id)
    /\ \E row \in table : Stored(row.product_id)

-----------------------------------------------------------------------------
(* CollectSalesData.py: the threshold-on-prediction classifier.  Its        *)
(* fetch_sales_data, check_data_integrity and outlier loop are those of    *)
(* CollectInventoryData.py; its frame has the first five columns only.     *)

\* lines 52-88 of CollectSalesData.py: the frame of five columns
clean_and_validate_sales_data(batch) ==
    clean_and_validate_data(
        [i \in 1..Len(batch) |->
            [batch[i] EXCEPT !.warehouse_location = "N/A",
                             !.batch_number = "N/A",
                             !.expiration_date = NoDate]])

\* RandomForestRegressor(n_estimators=100).fit is library code: it returns
\* a fitted model or raises
FitOutcomes == {"fits", "raises"}

RECURSIVE MinQuantity(_)
MinQuantity(df) ==
    IF Len(df) = 1 THEN df[1].sales_quantity
    ELSE LET m == MinQuantity(Tail(df))
         IN IF df[1].sales_quantity < m THEN df[1].sales_quantity ELSE m

RECURSIVE MaxQuantity(_)
MaxQuantity(df) ==
    IF Len(df) = 1 THEN df[1].sales_quantity
    ELSE LET m == MaxQuantity(Tail(df))
         IN IF df[1].sales_quantity > m THEN df[1].sales_quantity ELSE m

\* model.predict(features): a forest predicts averages of training targets,
\* so every prediction lies between the least and the greatest target
Predictions(df) ==
    IF df = <<>> THEN {<<>>}
    ELSE [1..Len(df) -> MinQuantity(df)..MaxQuantity(df)]

\* lines 116-120 of CollectSalesData.py: the rows predicted below the
\* threshold, with the columns store_slow_selling_results reads
identify_slow_selling_items_predicted(df, predicted, threshold) ==
    LET flagged == SelectRows(df, {i \in 1..Len(df) : predicted[df[i].idx] < threshold}, 1)
    IN [i \in 1..Len(flagged) |->
           [product_id |-> flagged[i].product_id,
            predicted_sales |-> predicted[flagged[i].idx]]]

\* one tuple of the INSERT ... ON DUPLICATE KEY UPDATE of lines 212-216
UpsertPredicted(t, r) ==
    IF \E row \in t : UniqueKey(row) = r.product_id
    THEN {IF UniqueKey(row) = r.product_id
          THEN [row EXCEPT !.predicted_sales = <<r.predicted_sales>>]
          ELSE row : row \in t}
    ELSE t \cup {[product_id |-> r.product_id, average_daily_sales |-> NULL,
                  available_quantity |-> NULL,
                  predicted_sales |-> <<r.predicted_sales>>]}

\* lines 209-218 of CollectSalesData.py
RECURSIVE store_slow_selling_results(_, _)
store_slow_selling_results(t, records) ==
    IF records = <<>> THEN t
    ELSE store_slow_selling_results(UpsertPredicted(t, Head(records)), Tail(records))

MsgNoSalesFetchedSales == "No sales data fetched. Aborting data processing."
MsgIntegrityFailedSales == "Data integrity check failed. Aborting data processing."

\* one order item with the given quantity
SalesItem(q, i) ==
    [BaseRecord EXCEPT !.order_id = i,
                       !.product_id = IF i % 2 = 1 THEN "P1" ELSE "P2",
                       !.sale_date = DateObj(i),
                       !.sales_quantity = q,
                       !.sales_price = NumStr(Scale + 1)]

SalesBatches ==
    {[i \in 1..Len(qs) |-> SalesItem(qs[i], i)] :
        qs \in SeqsUpTo({Num(0), Num(Scale), Num(2 * Scale), None}, MaxRawLen)}

(* Specification SpecSales: the module-level run of CollectSalesData.py *)

InitSales ==
    /\ pc = "fetch"
    /\ config \in {[stl_period |-> p] : p \in 2..MaxPeriod}
    /\ sales_data = <<>>
    /\ inventory_data = <<>>
    /\ stages = <<>>
    /\ log = {}
    /\ alerts = 0
    /\ table = {}
    /\ hook = NoRequest
    /\ CleanIdle
    /\ AuxIdle

\* line 221
FetchSales ==
    /\ pc = "fetch"
    /\ \E items \in SalesBatches :
        /\ sales_data' = fetch_sales_data(items)
        /\ log' = IF fetch_sales_data(items) = <<>>
                  THEN log \cup {MsgNoSalesToProcess} ELSE log
    /\ pc' = "sales"
    /\ UNCHANGED <<config, inventory_data, stages, alerts, table, hook>>
    /\ UNCHANGED cleanVars
    /\ UNCHANGED auxVars

SalesStagesToSTL ==
    <<"check_data_integrity", "clean_and_validate_data", "calculate_ema",
      "apply_stl_decomposition">>

\* lines 222-237: no statement of the run is inside a try block, so an
\* exception of a stage ends the process
SalesRun ==
    /\ pc = "sales"
    /\ IF ~HasData(sales_data)
       THEN /\ log' = log \cup {MsgNoSalesFetchedSales}
            /\ pc' = "done"
            /\ UNCHANGED <<stages, alerts, slow_selling_items>>
       ELSE IF ~check_data_integrity(sales_data)
       THEN /\ stages' = <<"check_data_integrity">>
            /\ alerts' = alerts + 1
            /\ log' = log \cup {MsgIntegrityIssues, MsgIntegrityFailedSales}
            /\ pc' = "done"
            /\ UNCHANGED slow_selling_items
       ELSE LET df == clean_and_validate_sales_data(sales_data).df
            IN \E stl \in STLOutcomes(Len(df), config.stl_period),
                  fit \in FitOutcomes, predicted \in Predictions(df) :
                 IF stl = "raises"
                 THEN /\ stages' = SalesStagesToSTL
                      /\ pc' = "crashed"
                      /\ UNCHANGED <<log, alerts, slow_selling_items>>
                 ELSE IF fit = "raises"
                 THEN /\ stages' = SalesStagesToSTL \o <<"model.fit">>
                      /\ pc' = "crashed"
                      /\ UNCHANGED <<log, alerts, slow_selling_items>>
                 ELSE LET slow == identify_slow_selling_items_predicted(df, predicted, Threshold)
                      IN /\ stages' = SalesStagesToSTL \o <<"model.fit", "model.predict">>
                         /\ pc' = "done"
                         /\ IF slow # <<>>
                            THEN /\ slow_selling_items' =
                                      store_slow_selling_results(slow_selling_items, slow)
                                 /\ UNCHANGED log
                            ELSE /\ log' = log \cup {MsgNoSlowSelling}
                                 /\ UNCHANGED slow_selling_items
                         /\ UNCHANGED alerts
    /\ UNCHANGED <<config, sales_data, inventory_data, table, hook>>
    /\ UNCHANGED cleanVars
    /\ UNCHANGED <<ema_data, daily_demand, safety_stock, final_data, db,
                   requests, commits>>

NextSales == FetchSales \/ SalesRun

SpecSales == InitSales /\ [][NextSales]_vars

\* C12: a run that reaches the training of the regression model ends with a
\* classification result (rows stored in slow_selling_items, or the message
\* that none was identified), also when the training fails: it then falls
\* back to the threshold-on-average strategy instead of failing.
C12_TrainingFailureFallsBack ==
    (pc \in {"done", "crashed"} /\ "model.fit" \in SeqToSet(stages)) =>
        /\ pc = "done"
        /\ slow_selling_items # {} \/ MsgNoSlowSelling \in log

-----------------------------------------------------------------------------
(* calculate_safety_stock and calculate_reorder_point.                     *)
(*                                                                         *)
(* Reals.  The safety stock z * std * sqrt(lead_time) is irrational in     *)
(* general; a real v is held exactly as [nan, sq, den] with                *)
(* v * |v| = sq / den^2, which has the sign of v and orders as v does.     *)
(* z is held in thousandths, a service level in per cent.                  *)

MaxResidualLen == 3     \* longest residual series
MaxLeadTime == 4        \* longest lead_time, in days

Sgn(n) == IF n > 0 THEN 1 ELSE IF n < 0 THEN -1 ELSE 0

NaNReal == [nan |-> TRUE, sq |-> 0, den |-> 1]

\* config['data_processing']['service_level'], in per cent
ServiceLevels == {5, 25, 50, 75, 95}

\* norm.ppf(service_level), in thousandths
norm_ppf(p) ==
    CASE p = 5 -> -1645
      [] p = 25 -> -674
      [] p = 50 -> 0
      [] p = 75 -> 674
      [] p = 95 -> 1645

RECURSIVE SumSeq(_)
SumSeq(x) == IF x = <<>> THEN 0 ELSE Head(x) + SumSeq(Tail(x))

\* np.std(daily_demand): the population standard deviation (ddof = 0),
\* sqrt(n * sum(x^2) - sum(x)^2) / n; NaN (with a warning) on no points
np_std(x) ==
    IF x = <<>> THEN NaNReal
    ELSE [nan |-> FALSE,
          sq |-> Len(x) * SumSeq([i \in 1..Len(x) |-> x[i] * x[i]])
                   - SumSeq(x) * SumSeq(x),
          den |-> Len(x)]

\* lines 127-132
calculate_safety_stock(demand, lead_time, service_level) ==
    LET demand_std_dev == np_std(demand)
        z_score == norm_ppf(service_level)
    IN IF demand_std_dev.nan THEN NaNReal
       ELSE [nan |-> FALSE,
             sq |-> Sgn(z_score) * z_score * z_score * demand_std_dev.sq * lead_time,
             den |-> 1000 * demand_std_dev.den]

\* lines 134-138: ema_sales_quantity * lead_time + safety_stock on every
\* row, held as the exact sum of its two terms
calculate_reorder_point(df, lead_time, stock) ==
    [i \in 1..Len(df) |->
        [ema_sales_quantity |-> df[i].ema_sales_quantity,
         residual |-> df[i].residual,
         reorder_point |-> [product |-> df[i].ema_sales_quantity * lead_time,
                            safety_stock |-> stock]]]

\* the frames handed to the two functions: a smoothed quantity and a
\* residual on every row
StockFrames ==
    SeqsUpTo({[ema_sales_quantity |-> e, residual |-> r] :
                 e \in {0, 2}, r \in {-1, 0, 1}}, MaxResidualLen)

(* Specification SpecStock: the two functions on one frame and one          *)
(* configuration                                                           *)

InitStock ==
    /\ pc = "safety stock"
    /\ config \in {[lead_time |-> l, service_level |-> p] :
                      l \in 1..MaxLeadTime, p \in ServiceLevels}
    /\ ema_data \in StockFrames
    /\ sales_data = <<>>
    /\ inventory_data = <<>>
    /\ stages = <<>>
    /\ log = {}
    /\ alerts = 0
    /\ table = {}
    /\ hook = NoRequest
    /\ CleanIdle
    /\ slow_selling_items = {}
    /\ daily_demand = <<>>
    /\ safety_stock = <<>>
    /\ final_data = <<>>
    /\ db = [rows |-> {}, dirty |-> {}]
    /\ requests = <<>>
    /\ commits = <<>>

\* lines 286-287: daily_demand = stl_data['residual'] and the call
SafetyStock ==
    /\ pc = "safety stock"
    /\ daily_demand' = [i \in 1..Len(ema_data) |-> ema_data[i].residual]
    /\ safety_stock' = <<calculate_safety_stock(daily_demand', config.lead_time,
                                                config.service_level)>>
    /\ pc' = "reorder point"
    /\ UNCHANGED <<config, sales_data, inventory_data, stages, log, alerts, table, hook>>
    /\ UNCHANGED cleanVars
    /\ UNCHANGED <<slow_selling_items, ema_data, final_data, db, requests, commits>>

\* line 288
ReorderPoint ==
    /\ pc = "reorder point"
    /\ final_data' = calculate_reorder_point(ema_data, config.lead_time, safety_stock[1])
    /\ pc' = "done"
    /\ UNCHANGED <<config, sales_data, inventory_data, stages, log, alerts, table, hook>>
    /\ UNCHANGED cleanVars
    /\ UNCHANGED <<slow_selling_items, ema_data, daily_demand, safety_stock, db,
                   requests, commits>>

NextStock == SafetyStock \/ ReorderPoint

SpecStock == InitStock /\ [][NextStock]_vars

\* comparisons of reals
RealNonNeg(v) == ~v.nan /\ v.sq >= 0
RealIsZero(v) == ~v.nan /\ v.sq = 0
\* a < b, for two reals over one denominator
RealLess(a, b) == ~a.nan /\ ~b.nan /\ a.den = b.den /\ a.sq < b.sq
\* product + safety_stock >= 0
ReorderNonNeg(r) ==
    /\ ~r.safety_stock.nan
    /\ r.safety_stock.sq >=
          -(Sgn(r.product) * r.product * r.product
              * r.safety_stock.den * r.safety_stock.den)

StockComputed == pc \in {"reorder point", "done"}

\* C13: for every residual series, positive lead time and service level in
\* (0,1) the safety stock is >= 0 and every reorder point
\* (ema_sales_quantity * lead_time + safety_stock) is >= 0.
C13_NonNegativeStock ==
    /\ StockComputed => RealNonNeg(safety_stock[1])
    /\ pc = "done" =>
          \A i \in 1..Len(final_data) : ReorderNonNeg(final_data[i].reorder_point)

\* C14: with the residual series fixed, a higher service level never gives
\* a smaller safety stock (lead time fixed) and a longer lead time never
\* gives a smaller safety stock (service level fixed, any value in (0,1)).
C14_Monotone ==
    StockComputed =>
        /\ \A p \in ServiceLevels :
              p >= config.service_level =>
                  ~RealLess(calculate_safety_stock(daily_demand, config.lead_time, p),
                            safety_stock[1])
        /\ \A l \in 1..MaxLeadTime :
              l >= config.lead_time =>
                  ~RealLess(calculate_safety_stock(daily_demand, l, config.service_level),
                            safety_stock[1])

\* C17: on a residual series of fewer than 2 points calculate_safety_stock
\* returns exactly zero (and raises nothing), whatever the lead time and
\* the service level.
C17_ShortSeriesGivesZero ==
    (StockComputed /\ Len(daily_demand) < 2) => RealIsZero(safety_stock[1])

-----------------------------------------------------------------------------
(* Specification SpecPersist: the pipeline run on one input, and run again *)
(* on the same input.  A run is the module-level code of                   *)
(* CollectInventoryData.py followed by Slow0Movers.py.  The stages are     *)
(* deterministic, so a run that completed on an input completes on it      *)
(* again; a run whose stages raise persists nothing.                       *)

StoredInventoryBatches ==
    {<<>>, <<<<"P1", "FC1", 5>>>>, <<<<"P1", "FC1", 0>>, <<"P2", "FC2", 5>>>>}

InitPersist ==
    /\ pc = "fresh"
    /\ config = [stl_period |-> 2]
    /\ sales_data \in {fetch_sales_data(b) : b \in SalesBatches}
    /\ inventory_data \in StoredInventoryBatches
    /\ table \in {{}, {StockRow("P1", <<0>>, <<Threshold * Days>>)}}
    /\ stages = <<>>
    /\ log = {}
    /\ alerts = 0
    /\ hook = NoRequest
    /\ CleanIdle
    /\ AuxIdle

\* CollectInventoryData.py lines 280-320, then Slow0Movers.py lines 74-80
PipelineRun ==
    /\ pc \in {"fresh", "once"}
    /\ LET checked == HasData(sales_data) /\ check_data_integrity(sales_data)
           r == RunStages(sales_data, config.stl_period, "returns")
           t1 == IF checked THEN ExecuteManySales(table, r.records) ELSE table
           t2 == IF inventory_data # <<>>
                 THEN store_inventory_data(t1, inventory_data) ELSE t1
           slow == identify_slow_selling_items(fetch_combined_data(t2),
                                               Days, Threshold)
       IN /\ stages' = IF checked THEN <<"check_data_integrity">> \o r.stages
                       ELSE IF HasData(sales_data) THEN <<"check_data_integrity">>
                       ELSE <<>>
          /\ alerts' = IF HasData(sales_data) /\ ~checked THEN alerts + 1 ELSE alerts
          /\ log' = log
                \cup (IF ~HasData(sales_data) THEN {MsgNoSalesFetched} ELSE {})
                \cup (IF HasData(sales_data) /\ ~checked
                      THEN {MsgIntegrityIssues, MsgIntegrityFailed} ELSE {})
                \cup (IF inventory_data = <<>> THEN {MsgNoInventory} ELSE {})
                \cup (IF slow = {} THEN {MsgNoSlowSelling} ELSE {})
          /\ table' = t2
          /\ slow_selling_items' = store_slow_selling_items(slow_selling_items, slow)
    /\ pc' = IF pc = "fresh" THEN "once" ELSE "twice"
    /\ UNCHANGED <<config, sales_data, inventory_data, hook>>
    /\ UNCHANGED cleanVars
    /\ UNCHANGED <<ema_data, daily_demand, safety_stock, final_data, db,
                   requests, commits>>

NextPersist == PipelineRun

SpecPersist == InitPersist /\ [][NextPersist]_vars

OneRowPerKey(t) == \A a \in t : \A b \in t : UniqueKey(a) = UniqueKey(b) => a = b

-----------------------------------------------------------------------------
(* calculate_ema.  A smoothed value is held as a fraction [num, den].      *)

MaxSpan == 3        \* largest config['data_processing']['ema_span']

\* Series.ewm(span=span, adjust=False).mean() of the quantities q, in their
\* order in the frame: y[1] = q[1], y[i] = a*q[i] + (1-a)*y[i-1] with
\* a = 2/(span+1)
RECURSIVE ewm_mean(_, _)
ewm_mean(q, span) ==
    IF q = <<>> THEN <<>>
    ELSE IF Len(q) = 1 THEN <<[num |-> q[1], den |-> 1]>>
    ELSE LET before == ewm_mean(SubSeq(q, 1, Len(q) - 1), span)
             y == before[Len(before)]
         IN Append(before,
                   [num |-> 2 * q[Len(q)] * y.den + (span - 1) * y.num,
                    den |-> (span + 1) * y.den])

\* lines 111-115: the column is added to the frame as it stands
calculate_ema(df, span) ==
    [i \in 1..Len(df) |->
        [ema_sales_quantity |-> ewm_mean(Quantities(df), span)[i]] @@ df[i]]

\* one sale: product, day and quantity
Sale(p, d, q, i) ==
    [BaseRecord EXCEPT !.product_id = p, !.order_id = i,
                       !.sale_date = DateObj(d), !.sales_quantity = Num(q * Scale)]

SaleShapes == {<<p, d, q>> : p \in {"P1", "P2"}, d \in 1..2, q \in 1..2}

\* batches of sales in any order of arrival
SmoothBatches ==
    {[i \in 1..Len(s) |-> Sale(s[i][1], s[i][2], s[i][3], i)] :
        s \in SeqsUpTo(SaleShapes, MaxRawLen)}

(* Specification SpecSmooth: a batch is cleaned and handed to calculate_ema *)

InitSmooth ==
    /\ pc = "smooth"
    /\ config \in {[ema_span |-> s] : s \in 2..MaxSpan}
    /\ data \in SmoothBatches
    /\ normalized = <<>>
    /\ cleaned = <<>>
    /\ refiltered = <<>>
    /\ cpc = "start"
    /\ sales_data = <<>>
    /\ inventory_data = <<>>
    /\ stages = <<>>
    /\ log = {}
    /\ alerts = 0
    /\ table = {}
    /\ hook = NoRequest
    /\ AuxIdle

\* lines 283-284 (and 333-334): no statement between the two calls, and
\* none inside them, sorts or groups the frame
Smooth ==
    /\ pc = "smooth"
    /\ cleaned' = clean_and_validate_data(data).df
    /\ ema_data' = calculate_ema(cleaned', config.ema_span)
    /\ pc' = "done"
    /\ UNCHANGED <<data, normalized, refiltered, cpc>>
    /\ UNCHANGED <<config, sales_data, inventory_data, stages, log, alerts, table, hook>>
    /\ UNCHANGED <<slow_selling_items, daily_demand, safety_stock, final_data, db,
                   requests, commits>>

NextSmooth == Smooth

SpecSmooth == InitSmooth /\ [][NextSmooth]_vars

FracEq(a, b) == a.num * b.den = b.num * a.den

\* the batch in another order of arrival
Rearranged(batch, f) == [i \in 1..Len(batch) |-> batch[f[i]]]

\* C16: the series handed to calculate_ema is in ascending order of sale
\* date, and the same records arriving in another order get the same
\* smoothed values (a record is known by its order_id).
C16_SmoothedInDateOrder ==
    pc = "done" =>
        /\ \A i \in 1..Len(ema_data) : \A j \in 1..Len(ema_data) :
              i < j => ema_data[i].sale_date.day <= ema_data[j].sale_date.day
        /\ \A f \in Permutations(1..Len(data)) :
              LET other == calculate_ema(clean_and_validate_data(Rearranged(data, f)).df,
                                         config.ema_span)
              IN \A i \in 1..Len(ema_data) : \A j \in 1..Len(other) :
                    (ema_data[i].order_id = other[j].order_id) =>
                        FracEq(ema_data[i].ema_sales_quantity,
                               other[j].ema_sales_quantity)

\* the rows of one product, in their order in the frame
OfProduct(df, p) == SelectRows(df, {i \in 1..Len(df) : df[i].product_id = p}, 1)

\* C18: in a batch of several products the smoothed values of a product's
\* records are those of that product's records alone, and the series of a
\* product has at most one point per date.
C18_PerProductSeries ==
    pc = "done" =>
        \A p \in {ema_data[i].product_id : i \in 1..Len(ema_data)} :
            LET mixed == OfProduct(ema_data, p)
                alone == calculate_ema(OfProduct(cleaned, p), config.ema_span)
            IN /\ \A i \in 1..Len(mixed) :
                      FracEq(mixed[i].ema_sales_quantity, alone[i].ema_sales_quantity)
               /\ \A i \in 1..Len(mixed) : \A j \in 1..Len(mixed) :
                      i # j => mixed[i].sale_date # mixed[j].sale_date

-----------------------------------------------------------------------------
(* Specification SpecConc: two POST /webhook requests handled by two       *)
(* threads of the server started by app.run (threaded by default).  Both   *)
(* handlers use the module-level db and cursor: one connection, hence one  *)
(* open transaction.  The connection is not made for use by several        *)
(* threads: a call on it that overlaps a call of the other thread may      *)
(* return or raise, whatever the server did with its statement.            *)

Threads == {"A", "B"}

IdleRequest ==
    [pc |-> "idle", data |-> <<>>, records |-> <<>>, stages |-> <<>>,
     responses |-> <<>>, raced |-> FALSE]

ConcPayloads ==
    {<<>>, <<Sale("P1", 1, 1, 1)>>, <<Sale("P1", 2, 2, 2)>>,
     <<Sale("P1", 1, 1, 1), Sale("P2", 1, 1, 2)>>}

\* the outcomes of a call on the connection
CallOutcomes(raced) == IF raced THEN {"returns", "raises"} ELSE {"returns"}

InCall(q) == q.pc \in {"executing", "committing"}

\* thread t starts a call on the connection: it and every thread inside a
\* call now overlap
StartCall(t, next) ==
    [u \in Threads |->
        IF u = t
        THEN [requests[t] EXCEPT !.pc = next,
                                 !.raced = \E v \in Threads \ {t} : InCall(requests[v])]
        ELSE IF InCall(requests[u]) THEN [requests[u] EXCEPT !.raced = TRUE]
        ELSE requests[u]]

InitConc ==
    /\ pc = "serving"
    /\ config = [stl_period |-> 2]
    /\ sales_data = <<>>
    /\ inventory_data = <<>>
    /\ stages = <<>>
    /\ log = {}
    /\ alerts = 0
    /\ table = {}
    /\ hook = NoRequest
    /\ CleanIdle
    /\ slow_selling_items = {}
    /\ ema_data = <<>>
    /\ daily_demand = <<>>
    /\ safety_stock = <<>>
    /\ final_data = <<>>
    /\ db = [rows |-> {}, dirty |-> {}]
    /\ requests = [t \in Threads |-> IdleRequest]
    /\ commits = <<>>

ConcFrame ==
    /\ UNCHANGED <<pc, config, sales_data, inventory_data, stages, alerts, hook>>
    /\ UNCHANGED cleanVars
    /\ UNCHANGED <<slow_selling_items, ema_data, daily_demand, safety_stock, final_data>>

\* lines 327-342 and 363-367: the payload is read and the stages run on the
\* request's own frame; no data answers 400, a stage that raises answers 500
Accept(t) ==
    /\ requests[t].pc = "idle"
    /\ \E payload \in ConcPayloads :
        IF HasData(payload)
        THEN \E stl \in STLOutcomes(Len(clean_and_validate_data(payload).df),
                                    config.stl_period) :
                LET r == RunStages(payload, config.stl_period, stl)
                IN /\ requests' = [requests EXCEPT ![t] =
                          [@ EXCEPT !.data = payload,
                                    !.stages = IF r.raised THEN r.stages
                                               ELSE SubSeq(r.stages, 1, Len(r.stages) - 2),
                                    !.records = r.records,
                                    !.responses = IF r.raised THEN <<500>> ELSE <<>>,
                                    !.pc = IF r.raised THEN "responded" ELSE "execute"]]
                   /\ log' = IF r.raised THEN log \cup {MsgWebhookError} ELSE log
        ELSE /\ requests' = [requests EXCEPT ![t] =
                    [@ EXCEPT !.data = payload, !.responses = <<400>>,
                              !.pc = "responded"]]
             /\ log' = log \cup {MsgWebhookEmpty}
    /\ UNCHANGED <<table, db, commits>>
    /\ ConcFrame

\* lines 343-358: cursor.executemany is called; the server applies the
\* statement in the connection's transaction
ExecuteCall(t) ==
    /\ requests[t].pc = "execute"
    /\ db' = [rows |-> ExecuteManySales(db.rows, requests[t].records),
              dirty |-> db.dirty \cup
                  {[by |-> t, product_id |-> requests[t].records[i].product_id] :
                      i \in 1..Len(requests[t].records)}]
    /\ requests' = [StartCall(t, "executing") EXCEPT
                       ![t].stages = Append(requests[t].stages, "cursor.executemany")]
    /\ UNCHANGED <<table, commits, log>>
    /\ ConcFrame

\* cursor.executemany returns, or raises into the except branch (lines
\* 365-367), which answers 500 and does not roll back
ExecuteReturn(t) ==
    /\ requests[t].pc = "executing"
    /\ \E outcome \in CallOutcomes(requests[t].raced) :
        IF outcome = "returns"
        THEN /\ requests' = [requests EXCEPT ![t].pc = "commit", ![t].raced = FALSE]
             /\ UNCHANGED log
        ELSE /\ requests' = [requests EXCEPT ![t].pc = "responded",
                                             ![t].raced = FALSE,
                                             ![t].responses = Append(@, 500)]
             /\ log' = log \cup {MsgWebhookError}
    /\ UNCHANGED <<table, db, commits>>
    /\ ConcFrame

\* line 359: db.commit() is called; the server commits the transaction of
\* the connection, whichever thread wrote in it
CommitCall(t) ==
    /\ requests[t].pc = "commit"
    /\ table' = db.rows
    /\ commits' = Append(commits, [by |-> t, wrote |-> db.dirty])
    /\ db' = [db EXCEPT !.dirty = {}]
    /\ requests' = [StartCall(t, "committing") EXCEPT
                       ![t].stages = Append(requests[t].stages, "db.commit")]
    /\ UNCHANGED log
    /\ ConcFrame

\* lines 359-361: db.commit() returns and the handler answers 200, or it
\* raises into the except branch
CommitReturn(t) ==
    /\ requests[t].pc = "committing"
    /\ \E outcome \in CallOutcomes(requests[t].raced) :
        /\ requests' = [requests EXCEPT
                           ![t].pc = "responded",
                           ![t].raced = FALSE,
                           ![t].responses =
                               Append(@, IF outcome = "returns" THEN 200 ELSE 500)]
        /\ log' = IF outcome = "returns" THEN log ELSE log \cup {MsgWebhookError}
    /\ UNCHANGED <<table, db, commits>>
    /\ ConcFrame

NextConc ==
    \E t \in Threads :
        \/ Accept(t)
        \/ ExecuteCall(t)
        \/ ExecuteReturn(t)
        \/ CommitCall(t)
        \/ CommitReturn(t)

SpecConc == InitConc /\ [][NextConc]_vars

\* the writes of the request of thread t
WritesOf(t) ==
    {[by |-> t, product_id |-> requests[t].records[i].product_id] :
        i \in 1..Len(requests[t].records)}

AllResponded == \A t \in Threads : requests[t].pc = "responded"

\* C19: two overlapping requests share no mutable state: every commit
\* commits exactly the rows its own request wrote, and in the end every
\* persisted row is the row one of the two requests wrote and committed.
C19_RunsShareNothing ==
    /\ \A i \in 1..Len(commits) : commits[i].wrote = WritesOf(commits[i].by)
    /\ AllResponded =>
          \A row \in table :
              \E t \in Threads : \E i \in 1..Len(requests[t].records) :
                  /\ requests[t].responses = <<200>>
                  /\ requests[t].records[i].product_id = row.product_id
                  /\ row.sale = <<SaleColumns(requests[t].records[i])>>

\* C20: a request ends with exactly one response, 200, 400 or 500, and no
\* exception leaves the handler; the writes of a request that ended with
\* 400 or 500 are never persisted, also not by the commit of another request.
C20_FailedRequestLeavesNoRows ==
    \A t \in Threads :
        /\ Len(requests[t].responses) <= 1
        /\ requests[t].pc = "responded" =>
              /\ Len(requests[t].responses) = 1
              /\ requests[t].responses[1] \in {200, 400, 500}
        /\ (requests[t].pc = "responded" /\ requests[t].responses[1] \in {400, 500}) =>
              \A i \in 1..Len(commits) : \A w \in commits[i].wrote : w.by # t

=============================================================================
